---- MODULE Spec2Model ----
(***************************************************************************)
(* A model of cache::CacheUpdateTrait (core/src/cache/cache_update_trait   *)
(* .cpp): the periodic update driver, the dump engine and the start/stop   *)
(* lifecycle of a userver cache component.                                 *)
(*                                                                         *)
(* Threads of control ("processes"):                                       *)
(*   "tick"  - the callback of update_task_ (DoPeriodicUpdate);            *)
(*   "start" - the caller of StartPeriodicUpdates;                         *)
(*   "stop"  - the caller of StopPeriodicUpdates;                          *)
(*   "ext"   - a testsuite::CacheControl caller (Update, DumpSyncDebug).   *)
(* The asynchronous dump task is the record dump_task; it runs on the      *)
(* filesystem task processor and finishes in the action DumpTaskFinish.    *)
(*                                                                         *)
(* Instants are natural numbers; 0 is the default-constructed time_point   *)
(* ("never"). One clock `now` stands for system_clock and steady_clock.    *)
(***************************************************************************)
EXTENDS Integers, FiniteSets, Sequences, TLC

\* ------------------------------------------------------------- bounds
\* The last instant the clock reaches.
MaxTime == 3

\* The largest min_dump_interval / full_update_interval of a configuration.
MaxInterval == 2

\* ------------------------------------------------------------- state
VARIABLES
  config,                   \* the CacheConfigStatic snapshot GetConfig() returns
  periodic_update_enabled_, \* cache_control.IsPeriodicUpdateEnabled(...)
  concurrent_lifecycle,     \* may Start and Stop be called concurrently?
  now,                      \* the clock
  dumps,                    \* update_times of the dump files on disk
  is_running_,
  force_next_update_full_,
  cache_modified_,
  last_dumped_update_,
  last_update,              \* UpdateData
  last_modifying_update,    \* UpdateData
  last_full_update,         \* UpdateData
  dump_task,                \* UpdateData: the handle and what the task captured
  update_lock,              \* owner of the mutex of update_, or "free"
  update_task_,             \* is the periodic update task started?
  cleanup_task_,            \* is the periodic cleanup task started?
  cache_invalidator_holder_,\* is the cache registered in CacheControl?
  statistics_dump,          \* [is_loaded, is_current_from_dump]
  pc,                       \* position of each process
  loc,                      \* locals of the update/dump call of each process
  start_loc,                \* locals of StartPeriodicUpdates
  start_result,             \* how the last StartPeriodicUpdates ended
  prev_periodic,            \* the last DoPeriodicUpdate, if it modified the cache
  dump_async_uassert        \* has the UASSERT of DumpAsync held so far?

vars == <<config, periodic_update_enabled_, concurrent_lifecycle, now, dumps,
          is_running_, force_next_update_full_, cache_modified_,
          last_dumped_update_, last_update, last_modifying_update,
          last_full_update, dump_task, update_lock, update_task_,
          cleanup_task_, cache_invalidator_holder_, statistics_dump, pc, loc,
          start_loc, start_result, prev_periodic, dump_async_uassert>>

Procs == {"tick", "start", "stop", "ext"}

UpdateTypes == {"kFull", "kIncremental"}
AllowedUpdateTypesSet == {"kOnlyFull", "kOnlyIncremental", "kFullAndIncremental"}
FirstUpdateModes == {"kSkip", "kBestEffort", "kRequired"}
DumpTypes == {"kHonorDumpInterval", "kForced"}
DumpOperations == {"kNewDump", "kBumpTime"}

Max(a, b) == IF a >= b THEN a ELSE b

SetMax(S) == CHOOSE x \in S : \A y \in S : y <= x

\* dump::TimePoint{} / std::chrono::system_clock::time_point{}
TimePointZero == 0

\* ------------------------------------------------------------- configurations
AllConfigs ==
  [allowed_update_types : AllowedUpdateTypesSet,
   first_update_mode : FirstUpdateModes,
   force_full_second_update : BOOLEAN,
   allow_first_update_failure : BOOLEAN,
   dumps_enabled : BOOLEAN,
   min_dump_interval : {0, MaxInterval},
   full_update_interval : {0, MaxInterval}]

\* ------------------------------------------------------------- locals
NoLoc == [op |-> "none", requested |-> "kFull", type |-> "kFull", now |-> 0, prev |-> 0,
          threw |-> FALSE, modified |-> FALSE, pending |-> FALSE,
          dump_type |-> "kForced"]

NoStartLoc == [no_first_update |-> FALSE, dump_loaded |-> FALSE,
               first_update |-> FALSE, threw |-> FALSE]

NoDumpTask == [state |-> "invalid", op |-> "kNewDump", old_update_time |-> 0,
               new_update_time |-> 0, cancel |-> FALSE, success |-> FALSE]

NoPeriodic == [valid |-> FALSE, time |-> 0, started |-> "none"]

\* update.dump_task.IsValid() && !update.dump_task.IsFinished()
DumpTaskInProgress == dump_task.state = "running"

\* ------------------------------------------------------------- update driver
\* Mutant of LockAcquirable: the call does not take the mutex.
LockAcquirable_NoMutex(p) == TRUE

\* auto update = update_.Lock(): the mutex is acquired when nobody owns it.
LockAcquirable(p) == update_lock = "free"

\* Mutant of CoerceUpdateType: the requested type is used as it is.
CoerceUpdateType_AsRequested(update_type) == update_type

\* Update(update_type): Incremental is coerced to Full under kOnlyFull.
CoerceUpdateType(update_type) ==
  IF config.allowed_update_types = "kOnlyFull" /\ update_type = "kIncremental"
  THEN "kFull"
  ELSE update_type

\* Mutant of ForceFullUpdate: force_next_update_full_ is not looked at.
ForceFullUpdate_IgnoresFlag == last_update = TimePointZero

\* Mutant of ForceFullUpdate: a cache that never loaded is not looked at.
ForceFullUpdate_IgnoresUnloaded == force_next_update_full_

\* DoPeriodicUpdate: force_full_update, before the exchange resets the flag.
ForceFullUpdate ==
  force_next_update_full_ \/ last_update = TimePointZero

\* Mutant of PeriodicUpdateType: kFullAndIncremental never looks at
\* full_update_interval.
PeriodicUpdateType_NoInterval(force_full_update, steady_now) ==
  IF force_full_update THEN "kFull"
  ELSE IF config.allowed_update_types = "kOnlyIncremental"
       THEN "kIncremental"
       ELSE "kFull"

\* DoPeriodicUpdate: the update type of a tick.
PeriodicUpdateType(force_full_update, steady_now) ==
  IF force_full_update THEN "kFull"
  ELSE CASE config.allowed_update_types = "kOnlyFull" -> "kFull"
         [] config.allowed_update_types = "kOnlyIncremental" -> "kIncremental"
         [] config.allowed_update_types = "kFullAndIncremental" ->
              IF steady_now - last_full_update < config.full_update_interval
              THEN "kIncremental"
              ELSE "kFull"

\* Mutant of DoUpdateCall: the domain Update is handed the zero instant.
DoUpdateCall_NoPrevious(op, requested, update_type, system_now) ==
  [op |-> op, requested |-> requested, type |-> update_type,
   now |-> system_now, prev |-> TimePointZero,
   threw |-> FALSE, modified |-> FALSE, pending |-> cache_modified_,
   dump_type |-> "kHonorDumpInterval"]

\* DoUpdate up to the call of the domain Update(update_type,
\* update.last_update, system_now, stats): the locals of the call.
DoUpdateCall(op, requested, update_type, system_now) ==
  [op |-> op, requested |-> requested, type |-> update_type,
   now |-> system_now, prev |-> last_update,
   threw |-> FALSE, modified |-> FALSE, pending |-> cache_modified_,
   dump_type |-> "kHonorDumpInterval"]

\* DoUpdate after the domain Update returned: update.last_modifying_update.
RecordedLastModifyingUpdate(system_now) ==
  IF cache_modified_ THEN system_now ELSE last_modifying_update

\* Mutant of RecordedLastFullUpdate: every update counts as a full one.
RecordedLastFullUpdate_Always(update_type, steady_now) == steady_now

\* DoUpdate after the domain Update returned: update.last_full_update.
RecordedLastFullUpdate(update_type, steady_now) ==
  IF update_type = "kFull" THEN steady_now ELSE last_full_update

\* DoUpdate after the domain Update returned: the outcome is recorded.
RecordOutcome(p) ==
  /\ last_update' = loc[p].now
  /\ last_modifying_update' = RecordedLastModifyingUpdate(loc[p].now)
  /\ cache_modified_' = FALSE
  /\ last_full_update' = RecordedLastFullUpdate(loc[p].type, loc[p].now)
  /\ statistics_dump' = [statistics_dump EXCEPT !.is_current_from_dump = FALSE]

\* ------------------------------------------------------------- dump engine
\* Mutant of ShouldDumpBeforeTask: kForced honours min_dump_interval too.
ShouldDumpBeforeTask_AlwaysHonors(type) ==
  /\ config.dumps_enabled
  /\ last_update # TimePointZero
  /\ ~(last_dumped_update_ > last_update - config.min_dump_interval)

\* Mutant of ShouldDumpBeforeTask: min_dump_interval is not honoured.
ShouldDumpBeforeTask_NoInterval(type) ==
  config.dumps_enabled /\ last_update # TimePointZero

\* Mutant of ShouldDumpBeforeTask: a cache that never loaded may be dumped.
ShouldDumpBeforeTask_Unloaded(type) ==
  /\ config.dumps_enabled
  /\ ~(type = "kHonorDumpInterval"
       /\ last_dumped_update_ > last_update - config.min_dump_interval)

\* ShouldDump, the checks before the dump task is looked at.
ShouldDumpBeforeTask(type) ==
  /\ config.dumps_enabled
  /\ last_update # TimePointZero
  /\ ~(type = "kHonorDumpInterval"
       /\ last_dumped_update_ > last_update - config.min_dump_interval)

\* Mutant of ShouldDumpTaskCheck: a dump in progress is not looked at.
ShouldDumpTaskCheck_Ignored == TRUE

\* ShouldDump: a previous dump operation in progress prevents a new one.
ShouldDumpTaskCheck == ~DumpTaskInProgress

\* ShouldDump(type, update, config), evaluated in one state.
ShouldDump(type) == ShouldDumpBeforeTask(type) /\ ShouldDumpTaskCheck

\* Mutant of ChooseDumpOperation: the dump is always rewritten.
ChooseDumpOperation_AlwaysNewDump == "kNewDump"

\* DumpAsyncIfNeeded: rename the dump when nothing was modified since it.
ChooseDumpOperation ==
  IF last_dumped_update_ = last_modifying_update THEN "kBumpTime"
  ELSE "kNewDump"

\* DumpAsync: the lambda's capture new_update_time.
CapturedNewUpdateTime == last_modifying_update

\* DumpAsync: the lambda's capture old_update_time.
CapturedOldUpdateTime == last_dumped_update_

\* DumpAsync(operation_type, update): the task spawned by utils::Async.
DumpAsync(operation_type) ==
  [state |-> "running", op |-> operation_type,
   old_update_time |-> CapturedOldUpdateTime,
   new_update_time |-> CapturedNewUpdateTime,
   cancel |-> FALSE, success |-> FALSE]

\* dumper_->BumpDumpTime(old, new): renames the dump of `old`, if present.
BumpDumpTime(old_update_time, new_update_time) ==
  (dumps \ {old_update_time}) \cup {new_update_time}

\* dumper_->RegisterNewDump(update_time), the writer, dumper_->Cleanup():
\* the new dump is on disk and only the newest dump is retained.
RegisterNewDumpAndCleanup(update_time) ==
  {SetMax(dumps \cup {update_time})}

\* Mutant of StoredLastDumpedUpdate: the instant is stored after a failure too.
StoredLastDumpedUpdate_Always(success, new_update_time) == new_update_time

\* The dump task's lambda: if (success) last_dumped_update_ = new_update_time.
StoredLastDumpedUpdate(success, new_update_time) ==
  IF success THEN new_update_time ELSE last_dumped_update_

\* ------------------------------------------------------------- frames
ConfigVars == <<config, periodic_update_enabled_, concurrent_lifecycle>>

LifecycleVars == <<is_running_, update_task_, cleanup_task_,
                   cache_invalidator_holder_, start_result>>

UpdateDataVars == <<last_update, last_modifying_update, last_full_update>>

\* ------------------------------------------------------------- the clock
\* std::chrono::system_clock::now() and steady_clock::now(): a reading is not
\* earlier than the reading before it.
ClockReadings == now..MaxTime

\* ------------------------------------------------------------- DoPeriodicUpdate
\* DoPeriodicUpdate from the lock to the call of the domain Update, run by the
\* update task ("tick") or by StartPeriodicUpdates ("start").
DoPeriodicUpdateBegin(p, t) ==
  /\ \/ p = "tick" /\ pc[p] = "idle" /\ update_task_
     \/ p = "start" /\ pc[p] = "first_update"
  /\ LockAcquirable(p)
  /\ update_lock' = p
  /\ now' = t
  /\ force_next_update_full_' = FALSE
  /\ loc' = [loc EXCEPT ![p] =
       DoUpdateCall("DoPeriodicUpdate", PeriodicUpdateType(ForceFullUpdate, t),
                    PeriodicUpdateType(ForceFullUpdate, t), t)]
  /\ pc' = [pc EXCEPT ![p] = "in_update"]
  /\ UNCHANGED <<ConfigVars, LifecycleVars, UpdateDataVars, dumps,
                 cache_modified_, last_dumped_update_, dump_task,
                 statistics_dump, start_loc, prev_periodic, dump_async_uassert>>

\* Update(update_type), called through testsuite::CacheControl.
UpdateBegin(p, update_type, t) ==
  /\ p = "ext" /\ pc[p] = "idle" /\ cache_invalidator_holder_
  /\ LockAcquirable(p)
  /\ update_lock' = p
  /\ now' = t
  /\ loc' = [loc EXCEPT ![p] =
       DoUpdateCall("Update", update_type, CoerceUpdateType(update_type), t)]
  /\ pc' = [pc EXCEPT ![p] = "in_update"]
  /\ UNCHANGED <<ConfigVars, LifecycleVars, UpdateDataVars, dumps,
                 force_next_update_full_, cache_modified_, last_dumped_update_,
                 dump_task, statistics_dump, start_loc, prev_periodic,
                 dump_async_uassert>>

\* OnCacheModified(), called by the domain Update while it runs.
OnCacheModified(p) ==
  /\ pc[p] = "in_update"
  /\ cache_modified_' = TRUE
  /\ UNCHANGED <<ConfigVars, LifecycleVars, UpdateDataVars, now, dumps,
                 force_next_update_full_, last_dumped_update_, dump_task,
                 update_lock, statistics_dump, pc, loc, start_loc,
                 prev_periodic, dump_async_uassert>>

\* The domain Update returns: DoUpdate records the outcome. Update(type)
\* then returns; DoPeriodicUpdate goes on to DumpAsyncIfNeeded.
DoUpdateReturn(p) ==
  /\ pc[p] = "in_update"
  /\ RecordOutcome(p)
  /\ IF loc[p].op = "Update"
     THEN /\ update_lock' = "free"
          /\ pc' = [pc EXCEPT ![p] = "idle"]
          /\ loc' = [loc EXCEPT ![p] = NoLoc]
          /\ prev_periodic' = NoPeriodic
     ELSE /\ update_lock' = update_lock
          /\ pc' = [pc EXCEPT ![p] = "should_dump"]
          /\ loc' = [loc EXCEPT ![p].modified = cache_modified_]
          /\ prev_periodic' = prev_periodic
  /\ UNCHANGED <<ConfigVars, LifecycleVars, now, dumps,
                 force_next_update_full_, last_dumped_update_, dump_task,
                 start_loc, dump_async_uassert>>

\* Mutant of DoUpdateThrow: the exception leaves DoPeriodicUpdate at once,
\* without a dump decision.
DoUpdateThrow_SkipsDump(p) ==
  /\ pc[p] = "in_update"
  /\ update_lock' = "free"
  /\ pc' = [pc EXCEPT ![p] = IF p = "start" THEN "after_first" ELSE "idle"]
  /\ loc' = [loc EXCEPT ![p] = NoLoc]
  /\ start_loc' = IF p = "start" THEN [start_loc EXCEPT !.threw = TRUE]
                  ELSE start_loc
  /\ UNCHANGED <<ConfigVars, LifecycleVars, UpdateDataVars, now, dumps,
                 force_next_update_full_, cache_modified_, last_dumped_update_,
                 dump_task, statistics_dump, prev_periodic, dump_async_uassert>>

\* The domain Update throws: nothing is recorded. Update(type) propagates;
\* DoPeriodicUpdate catches, calls DumpAsyncIfNeeded and rethrows.
DoUpdateThrow(p) ==
  /\ pc[p] = "in_update"
  /\ IF loc[p].op = "Update"
     THEN /\ update_lock' = "free"
          /\ pc' = [pc EXCEPT ![p] = "idle"]
          /\ loc' = [loc EXCEPT ![p] = NoLoc]
     ELSE /\ update_lock' = update_lock
          /\ pc' = [pc EXCEPT ![p] = "should_dump"]
          /\ loc' = [loc EXCEPT ![p].threw = TRUE]
  /\ UNCHANGED <<ConfigVars, LifecycleVars, UpdateDataVars, now, dumps,
                 force_next_update_full_, cache_modified_, last_dumped_update_,
                 dump_task, statistics_dump, start_loc, prev_periodic,
                 dump_async_uassert>>

\* ------------------------------------------------------------- DumpAsyncIfNeeded
\* What follows DumpAsyncIfNeeded in its caller. DoPeriodicUpdate returns (or
\* rethrows) and releases the mutex; DumpSyncDebug keeps it and waits.
AfterDumpAsyncIfNeeded(p, started) ==
  IF loc[p].op = "DumpSyncDebug"
  THEN /\ pc' = [pc EXCEPT ![p] = "wait_dump"]
       /\ update_lock' = update_lock
       /\ loc' = loc
       /\ start_loc' = start_loc
       /\ prev_periodic' = NoPeriodic
  ELSE /\ pc' = [pc EXCEPT ![p] = IF p = "start" THEN "after_first" ELSE "idle"]
       /\ update_lock' = "free"
       /\ loc' = [loc EXCEPT ![p] = NoLoc]
       /\ start_loc' = IF p = "start"
                       THEN [start_loc EXCEPT !.threw = loc[p].threw]
                       ELSE start_loc
       /\ prev_periodic' = IF ~loc[p].threw /\ loc[p].modified
                            THEN [valid |-> TRUE, time |-> loc[p].now,
                                  started |-> started]
                            ELSE NoPeriodic

\* DumpAsyncIfNeeded: ShouldDump up to its read of last_dumped_update_.
DumpAsyncIfNeededBegin(p) ==
  /\ pc[p] = "should_dump"
  /\ IF ShouldDumpBeforeTask(loc[p].dump_type)
     THEN /\ pc' = [pc EXCEPT ![p] = "check_task"]
          /\ UNCHANGED <<update_lock, loc, start_loc, prev_periodic>>
     ELSE AfterDumpAsyncIfNeeded(p, "none")
  /\ UNCHANGED <<ConfigVars, LifecycleVars, UpdateDataVars, now, dumps,
                 force_next_update_full_, cache_modified_, last_dumped_update_,
                 dump_task, statistics_dump, dump_async_uassert>>

\* DumpAsyncIfNeeded: ShouldDump's look at the dump task, then DumpAsync.
DumpAsyncIfNeededEnd(p) ==
  /\ pc[p] = "check_task"
  /\ IF ShouldDumpTaskCheck
     THEN /\ dump_async_uassert' = (dump_async_uassert /\ ~DumpTaskInProgress)
          /\ dump_task' = DumpAsync(ChooseDumpOperation)
          /\ AfterDumpAsyncIfNeeded(p, ChooseDumpOperation)
     ELSE /\ UNCHANGED <<dump_task, dump_async_uassert>>
          /\ AfterDumpAsyncIfNeeded(p, "none")
  /\ UNCHANGED <<ConfigVars, LifecycleVars, UpdateDataVars, now, dumps,
                 force_next_update_full_, cache_modified_, last_dumped_update_,
                 statistics_dump>>

\* Mutant of DumpTaskMayRun: the lambda locks update_ before it runs.
DumpTaskMayRun_LocksUpdate == DumpTaskInProgress /\ update_lock = "free"

\* The lambda of DumpAsync works on what it captured by value and on the
\* atomic last_dumped_update_; it takes no lock of update_.
DumpTaskMayRun == DumpTaskInProgress

\* The dump task's lambda runs to its end on the filesystem task processor.
\* DoDump fails on EmptyCacheError or any other exception; BumpDumpTime
\* fails when the dump of old_update_time is not there.
DumpTaskFinish(success) ==
  /\ DumpTaskMayRun
  /\ dump_task.op = "kBumpTime" /\ success => dump_task.old_update_time \in dumps
  /\ dumps' = IF ~success THEN dumps
              ELSE IF dump_task.op = "kNewDump"
                   THEN RegisterNewDumpAndCleanup(dump_task.new_update_time)
                   ELSE BumpDumpTime(dump_task.old_update_time,
                                     dump_task.new_update_time)
  /\ last_dumped_update_' =
       StoredLastDumpedUpdate(success, dump_task.new_update_time)
  /\ dump_task' = [NoDumpTask EXCEPT !.state = "finished", !.success = success]
  /\ UNCHANGED <<ConfigVars, LifecycleVars, UpdateDataVars, now,
                 force_next_update_full_, cache_modified_, update_lock,
                 statistics_dump, pc, loc, start_loc, prev_periodic,
                 dump_async_uassert>>

\* ------------------------------------------------------------- DumpSyncDebug
\* DumpSyncDebug() up to DumpAsyncIfNeeded(DumpType::kForced, ...).
DumpSyncDebugBegin(p) ==
  /\ p = "ext" /\ pc[p] = "idle" /\ cache_invalidator_holder_
  /\ LockAcquirable(p)
  /\ update_lock' = p
  /\ loc' = [loc EXCEPT ![p] =
       [NoLoc EXCEPT !.op = "DumpSyncDebug", !.dump_type = "kForced"]]
  /\ pc' = [pc EXCEPT ![p] = "should_dump"]
  /\ UNCHANGED <<ConfigVars, LifecycleVars, UpdateDataVars, now, dumps,
                 force_next_update_full_, cache_modified_, last_dumped_update_,
                 dump_task, statistics_dump, start_loc, prev_periodic,
                 dump_async_uassert>>

\* DumpSyncDebug(): if (dump_task.IsValid()) dump_task.Wait(); then return.
DumpSyncDebugWait(p) ==
  /\ pc[p] = "wait_dump"
  /\ ~DumpTaskInProgress
  /\ update_lock' = "free"
  /\ pc' = [pc EXCEPT ![p] = "idle"]
  /\ loc' = [loc EXCEPT ![p] = NoLoc]
  /\ UNCHANGED <<ConfigVars, LifecycleVars, UpdateDataVars, now, dumps,
                 force_next_update_full_, cache_modified_, last_dumped_update_,
                 dump_task, statistics_dump, start_loc, prev_periodic,
                 dump_async_uassert>>

\* ------------------------------------------------------------- LoadFromDump
\* Mutant of RunsFirstUpdate: the kNoFirstUpdate flag is not looked at.
RunsFirstUpdate_IgnoresFlag(dump_loaded, no_first_update) ==
  ~dump_loaded \/ config.first_update_mode # "kSkip"

\* StartPeriodicUpdates: is the synchronous first update run?
RunsFirstUpdate(dump_loaded, no_first_update) ==
  /\ ~dump_loaded \/ config.first_update_mode # "kSkip"
  /\ ~no_first_update \/ ~periodic_update_enabled_

\* Mutant of FirstUpdateFailurePropagates: a loaded dump does not matter.
FirstUpdateFailurePropagates_IgnoresDump(dump_loaded) ==
  ~config.allow_first_update_failure

\* StartPeriodicUpdates: does a throwing first update end the start?
FirstUpdateFailurePropagates(dump_loaded) ==
  /\ ~(dump_loaded /\ config.first_update_mode # "kRequired")
  /\ ~config.allow_first_update_failure

\* StartPeriodicUpdates: the single asynchronous full update after a dump.
ForcesFullSecondUpdate(dump_loaded) ==
  /\ dump_loaded
  /\ config.allowed_update_types = "kOnlyIncremental"
  /\ config.force_full_second_update

\* LoadFromDump: utils::AtomicMax(last_dumped_update_, *update_time).
LoadedLastDumpedUpdate(update_time) == Max(last_dumped_update_, update_time)

\* Mutant of LoadedLastUpdate: last_update is left as it was.
LoadedLastUpdate_Unset(update_time) == last_update

\* LoadFromDump: update->last_update = *update_time.
LoadedLastUpdate(update_time) == update_time

\* Mutant of LoadedLastModifyingUpdate: last_modifying_update is left as it was.
LoadedLastModifyingUpdate_Unset(update_time) == last_modifying_update

\* LoadFromDump: update->last_modifying_update = *update_time.
LoadedLastModifyingUpdate(update_time) == update_time

\* dumper_->GetLatestDump(): the newest dump on disk.
GetLatestDump == SetMax(dumps)

\* Mutant of AfterLoadFromDump: every load counts as a loaded dump.
AfterLoadFromDump_AsLoaded(dump_loaded) ==
  /\ start_loc' = [start_loc EXCEPT
       !.dump_loaded = TRUE,
       !.first_update = RunsFirstUpdate(TRUE, start_loc.no_first_update)]
  /\ pc' = [pc EXCEPT !["start"] =
       IF RunsFirstUpdate(TRUE, start_loc.no_first_update)
       THEN "first_update" ELSE "after_first"]

\* StartPeriodicUpdates after LoadFromDump returned dump_loaded.
AfterLoadFromDump(dump_loaded) ==
  /\ start_loc' = [start_loc EXCEPT
       !.dump_loaded = dump_loaded,
       !.first_update = RunsFirstUpdate(dump_loaded, start_loc.no_first_update)]
  /\ pc' = [pc EXCEPT !["start"] =
       IF RunsFirstUpdate(dump_loaded, start_loc.no_first_update)
       THEN "first_update" ELSE "after_first"]

\* StartPeriodicUpdates(flags) up to LoadFromDump.
StartPeriodicUpdatesBegin(no_first_update) ==
  /\ pc["start"] = "idle"
  /\ concurrent_lifecycle \/ pc["stop"] = "idle"
  /\ IF is_running_
     THEN UNCHANGED <<is_running_, cache_invalidator_holder_, pc, start_loc,
                      start_result>>
     ELSE /\ is_running_' = TRUE
          /\ cache_invalidator_holder_' = TRUE
          /\ start_result' = "none"
          /\ start_loc' = [NoStartLoc EXCEPT !.no_first_update = no_first_update]
          /\ pc' = [pc EXCEPT !["start"] = "load"]
  /\ UNCHANGED <<ConfigVars, UpdateDataVars, now, dumps, update_task_,
                 cleanup_task_, force_next_update_full_, cache_modified_,
                 last_dumped_update_, dump_task, update_lock, statistics_dump,
                 loc, prev_periodic, dump_async_uassert>>

\* LoadFromDump: the lock; without dumps it returns false at once, otherwise
\* the reading task is spawned on the filesystem task processor and awaited.
LoadFromDumpBegin ==
  /\ pc["start"] = "load"
  /\ LockAcquirable("start")
  /\ IF config.dumps_enabled
     THEN /\ update_lock' = "start"
          /\ pc' = [pc EXCEPT !["start"] = "reading"]
          /\ start_loc' = start_loc
     ELSE /\ update_lock' = update_lock
          /\ AfterLoadFromDump(FALSE)
  /\ UNCHANGED <<ConfigVars, LifecycleVars, UpdateDataVars, now, dumps,
                 force_next_update_full_, cache_modified_, last_dumped_update_,
                 dump_task, statistics_dump, loc, prev_periodic,
                 dump_async_uassert>>

\* LoadFromDump: the reading task ends. It yields no update_time when there
\* is no dump or when the reader or ReadAndSet throws (read_ok = FALSE).
LoadFromDumpEnd(read_ok) ==
  /\ pc["start"] = "reading"
  /\ read_ok => dumps # {}
  /\ IF read_ok
     THEN /\ last_update' = LoadedLastUpdate(GetLatestDump)
          /\ last_modifying_update' = LoadedLastModifyingUpdate(GetLatestDump)
          /\ last_dumped_update_' = LoadedLastDumpedUpdate(GetLatestDump)
          /\ statistics_dump' = [is_loaded |-> TRUE, is_current_from_dump |-> TRUE]
          /\ prev_periodic' = NoPeriodic
     ELSE UNCHANGED <<last_update, last_modifying_update, last_dumped_update_,
                      statistics_dump, prev_periodic>>
  /\ update_lock' = "free"
  /\ AfterLoadFromDump(read_ok)
  /\ UNCHANGED <<ConfigVars, LifecycleVars, last_full_update, now, dumps,
                 force_next_update_full_, cache_modified_, dump_task, loc,
                 dump_async_uassert>>

\* StartPeriodicUpdates after the first update: the catch clauses, the forced
\* full second update and the start of the periodic tasks.
StartPeriodicUpdatesEnd ==
  /\ pc["start"] = "after_first"
  /\ IF start_loc.threw /\ FirstUpdateFailurePropagates(start_loc.dump_loaded)
     THEN /\ is_running_' = FALSE
          /\ start_result' = "thrown"
          /\ UNCHANGED <<force_next_update_full_, update_task_, cleanup_task_>>
     ELSE /\ force_next_update_full_' =
               (force_next_update_full_ \/ ForcesFullSecondUpdate(start_loc.dump_loaded))
          /\ update_task_' = (update_task_ \/ periodic_update_enabled_)
          /\ cleanup_task_' = (cleanup_task_ \/ periodic_update_enabled_)
          /\ start_result' = "completed"
          /\ UNCHANGED is_running_
  /\ pc' = [pc EXCEPT !["start"] = "idle"]
  /\ start_loc' = NoStartLoc
  /\ UNCHANGED <<ConfigVars, UpdateDataVars, now, dumps, cache_invalidator_holder_,
                 cache_modified_, last_dumped_update_, dump_task, update_lock,
                 statistics_dump, loc, prev_periodic, dump_async_uassert>>

\* ------------------------------------------------------------- StopPeriodicUpdates
\* StopPeriodicUpdates: if (!is_running_.exchange(false)) return.
StopPeriodicUpdatesBegin ==
  /\ pc["stop"] = "idle"
  /\ concurrent_lifecycle \/ pc["start"] = "idle"
  /\ IF is_running_
     THEN /\ is_running_' = FALSE
          /\ pc' = [pc EXCEPT !["stop"] = "stop_tasks"]
     ELSE /\ is_running_' = is_running_
          /\ pc' = [pc EXCEPT !["stop"] = "stop_return"]
  /\ UNCHANGED <<ConfigVars, UpdateDataVars, now, dumps, update_task_,
                 cleanup_task_, cache_invalidator_holder_, start_result,
                 force_next_update_full_, cache_modified_, last_dumped_update_,
                 dump_task, update_lock, statistics_dump, loc, start_loc,
                 prev_periodic, dump_async_uassert>>

\* StopPeriodicUpdates: the return of a call that found is_running_ false.
StopPeriodicUpdatesReturn ==
  /\ pc["stop"] = "stop_return"
  /\ pc' = [pc EXCEPT !["stop"] = "idle"]
  /\ UNCHANGED <<ConfigVars, LifecycleVars, UpdateDataVars, now, dumps,
                 force_next_update_full_, cache_modified_, last_dumped_update_,
                 dump_task, update_lock, statistics_dump, loc, start_loc,
                 prev_periodic, dump_async_uassert>>

\* update_task_.Stop(), which returns when the callback is not running, and
\* cleanup_task_.Stop().
StopPeriodicTasks ==
  /\ pc["stop"] = "stop_tasks"
  /\ pc["tick"] = "idle"
  /\ update_task_' = FALSE
  /\ cleanup_task_' = FALSE
  /\ pc' = [pc EXCEPT !["stop"] = "stop_dump_task"]
  /\ UNCHANGED <<ConfigVars, UpdateDataVars, now, dumps, is_running_,
                 cache_invalidator_holder_, start_result,
                 force_next_update_full_, cache_modified_, last_dumped_update_,
                 dump_task, update_lock, statistics_dump, loc, start_loc,
                 prev_periodic, dump_async_uassert>>

\* StopPeriodicUpdates: the lock; a dump task in progress is asked to cancel.
StopDumpTask ==
  /\ pc["stop"] = "stop_dump_task"
  /\ LockAcquirable("stop")
  /\ IF DumpTaskInProgress
     THEN /\ update_lock' = "stop"
          /\ dump_task' = [dump_task EXCEPT !.cancel = TRUE]
          /\ pc' = [pc EXCEPT !["stop"] = "stop_wait"]
     ELSE /\ UNCHANGED <<update_lock, dump_task>>
          /\ pc' = [pc EXCEPT !["stop"] = "idle"]
  /\ UNCHANGED <<ConfigVars, LifecycleVars, UpdateDataVars, now, dumps,
                 force_next_update_full_, cache_modified_, last_dumped_update_,
                 statistics_dump, loc, start_loc, prev_periodic,
                 dump_async_uassert>>

\* StopPeriodicUpdates: update->dump_task.Wait() returns, then the unlock.
StopWaitDumpTask ==
  /\ pc["stop"] = "stop_wait"
  /\ ~DumpTaskInProgress
  /\ update_lock' = "free"
  /\ pc' = [pc EXCEPT !["stop"] = "idle"]
  /\ UNCHANGED <<ConfigVars, LifecycleVars, UpdateDataVars, now, dumps,
                 force_next_update_full_, cache_modified_, last_dumped_update_,
                 dump_task, statistics_dump, loc, start_loc, prev_periodic,
                 dump_async_uassert>>

\* The callback of cleanup_task_: config_.Cleanup(); Cleanup().
CleanupTick ==
  /\ cleanup_task_
  /\ UNCHANGED vars

\* ------------------------------------------------------------- specification
\* The state after the constructor at instant T, for configurations C, values
\* P of periodic_update_enabled_ and L of concurrent_lifecycle. The disk holds
\* no dump or a dump an earlier run wrote.
InitAt(C, P, L, T) ==
  /\ config \in C
  /\ periodic_update_enabled_ \in P
  /\ concurrent_lifecycle \in L
  /\ now = T
  /\ dumps \in {{}, {1}}
  /\ is_running_ = FALSE
  /\ force_next_update_full_ = FALSE
  /\ cache_modified_ = FALSE
  /\ last_dumped_update_ = TimePointZero
  /\ last_update = TimePointZero
  /\ last_modifying_update = TimePointZero
  /\ last_full_update = TimePointZero
  /\ dump_task = NoDumpTask
  /\ update_lock = "free"
  /\ update_task_ = FALSE
  /\ cleanup_task_ = FALSE
  /\ cache_invalidator_holder_ = FALSE
  /\ statistics_dump = [is_loaded |-> FALSE, is_current_from_dump |-> FALSE]
  /\ pc = [p \in Procs |-> "idle"]
  /\ loc = [p \in Procs |-> NoLoc]
  /\ start_loc = NoStartLoc
  /\ start_result = "none"
  /\ prev_periodic = NoPeriodic
  /\ dump_async_uassert = TRUE

InitWith(C, P, L) == InitAt(C, P, L, 1)

Next ==
  \/ \E p \in {"tick", "start"}, t \in ClockReadings : DoPeriodicUpdateBegin(p, t)
  \/ \E u \in UpdateTypes, t \in ClockReadings : UpdateBegin("ext", u, t)
  \/ \E p \in Procs : OnCacheModified(p)
  \/ \E p \in Procs : DoUpdateReturn(p)
  \/ \E p \in Procs : DoUpdateThrow(p)
  \/ \E p \in Procs : DumpAsyncIfNeededBegin(p)
  \/ \E p \in Procs : DumpAsyncIfNeededEnd(p)
  \/ \E success \in BOOLEAN : DumpTaskFinish(success)
  \/ DumpSyncDebugBegin("ext")
  \/ DumpSyncDebugWait("ext")
  \/ \E f \in BOOLEAN : StartPeriodicUpdatesBegin(f)
  \/ LoadFromDumpBegin
  \/ \E read_ok \in BOOLEAN : LoadFromDumpEnd(read_ok)
  \/ StartPeriodicUpdatesEnd
  \/ StopPeriodicUpdatesBegin
  \/ StopPeriodicUpdatesReturn
  \/ StopPeriodicTasks
  \/ StopDumpTask
  \/ StopWaitDumpTask
  \/ CleanupTick

\* A cache with dumps and periodic updates, started and stopped by its owner.
DumpConfigs ==
  {c \in AllConfigs :
     /\ c.dumps_enabled
     /\ c.allowed_update_types = "kOnlyIncremental"
     /\ c.first_update_mode = "kBestEffort"
     /\ c.force_full_second_update = FALSE
     /\ c.allow_first_update_failure = FALSE
     /\ c.full_update_interval = 0}

Init == InitWith(DumpConfigs, {TRUE}, {FALSE})

Spec == Init /\ [][Next]_vars

\* Caches of every update policy; force_full_second_update, which has an
\* effect under kOnlyIncremental only, is set for such caches only.
TypeConfigs ==
  {c \in AllConfigs :
     /\ c.dumps_enabled
     /\ c.first_update_mode = "kBestEffort"
     /\ c.force_full_second_update => c.allowed_update_types = "kOnlyIncremental"
     /\ c.allow_first_update_failure = FALSE
     /\ c.min_dump_interval = MaxInterval
     /\ c.full_update_interval = MaxInterval}

InitTypes == InitWith(TypeConfigs, {TRUE}, {FALSE})

SpecTypes == InitTypes /\ [][Next]_vars

\* Caches of every first-update policy, with and without periodic updates.
BootConfigs ==
  {c \in AllConfigs :
     /\ c.dumps_enabled
     /\ c.allowed_update_types = "kOnlyIncremental"
     /\ c.force_full_second_update = FALSE
     /\ c.min_dump_interval = MaxInterval
     /\ c.full_update_interval = 0}

InitBoot == InitWith(BootConfigs, BOOLEAN, {FALSE})

SpecBoot == InitBoot /\ [][Next]_vars

\* Incremental caches started from a dump, with and without the forced full
\* second update.
WarmConfigs ==
  {c \in AllConfigs :
     /\ c.dumps_enabled
     /\ c.allowed_update_types = "kOnlyIncremental"
     /\ c.first_update_mode = "kBestEffort"
     /\ c.allow_first_update_failure = FALSE
     /\ c.min_dump_interval = MaxInterval
     /\ c.full_update_interval = 0}

InitWarm == InitWith(WarmConfigs, {TRUE}, {FALSE})

SpecWarm == InitWarm /\ [][Next]_vars

\* A cache whose StartPeriodicUpdates and StopPeriodicUpdates are called from
\* different tasks, so that a call of one may begin while a call of the other
\* is in progress.
RaceConfigs ==
  {c \in DumpConfigs : c.min_dump_interval = MaxInterval}

InitRace == InitAt(RaceConfigs, {TRUE}, {TRUE}, MaxTime - 1)

SpecRace == InitRace /\ [][Next]_vars

\* The scheduling of a cache whose domain Update calls and dump tasks finish:
\* a task that can go on does go on (WF), engine::Mutex serves a waiting
\* locker once the mutex has been free often enough, and update_task_.Stop()
\* returns once the callback has been out of its body often enough (SF).
Fairness ==
  /\ \A p \in Procs : WF_vars(DoUpdateReturn(p) \/ DoUpdateThrow(p))
  /\ \A p \in Procs : WF_vars(DumpAsyncIfNeededBegin(p) \/ DumpAsyncIfNeededEnd(p))
  /\ WF_vars(\E success \in BOOLEAN : DumpTaskFinish(success))
  /\ WF_vars(DumpSyncDebugWait("ext"))
  /\ WF_vars(\E read_ok \in BOOLEAN : LoadFromDumpEnd(read_ok))
  /\ WF_vars(StartPeriodicUpdatesEnd)
  /\ WF_vars(StopPeriodicUpdatesReturn \/ StopWaitDumpTask)
  /\ SF_vars(LoadFromDumpBegin)
  /\ SF_vars(\E t \in ClockReadings : DoPeriodicUpdateBegin("start", t))
  /\ SF_vars(StopPeriodicTasks)
  /\ SF_vars(StopDumpTask)

\* A cache that dumps after every update, constructed at the last instant of
\* the clock.
LiveConfigs ==
  {c \in DumpConfigs : c.min_dump_interval = 0}

InitLive == InitAt(LiveConfigs, {TRUE}, {FALSE}, MaxTime)

SpecLive == InitLive /\ [][Next]_vars /\ Fairness

\* Caches with and without dumps.
ShouldDumpConfigs ==
  {c \in AllConfigs :
     /\ c.allowed_update_types = "kOnlyIncremental"
     /\ c.first_update_mode = "kBestEffort"
     /\ c.force_full_second_update = FALSE
     /\ c.allow_first_update_failure = FALSE
     /\ c.min_dump_interval = MaxInterval
     /\ c.full_update_interval = 0}

InitShouldDump == InitWith(ShouldDumpConfigs, {TRUE}, {FALSE})

SpecShouldDump == InitShouldDump /\ [][Next]_vars

\* ------------------------------------------------------------- helpers of the claims
\* This step spawns a dump task (DumpAsync stores a new running task).
DumpSpawned == dump_task.state # "running" /\ dump_task'.state = "running"

\* This step is the end of a dump task that succeeded.
DumpSucceeded ==
  dump_task.state = "running" /\ dump_task'.state = "finished" /\ dump_task'.success

\* Process p is in a DoPeriodicUpdate whose update succeeded and modified the
\* cache at an instant less than min_dump_interval after the previous
\* DoPeriodicUpdate, which modified the cache too and started a NewDump.
SecondModifyingUpdate(p) ==
  /\ loc[p].op = "DoPeriodicUpdate"
  /\ ~loc[p].threw
  /\ loc[p].modified
  /\ prev_periodic.valid
  /\ prev_periodic.started = "kNewDump"
  /\ prev_periodic.time < loc[p].now
  /\ loc[p].now - prev_periodic.time < config.min_dump_interval

\* ------------------------------------------------------------- C1
\* C1: at most one dump task runs at any time: DumpAsync is never entered
\* while the stored dump_task is valid and not finished (its UASSERT holds).
C1_AtMostOneDumpTask == dump_async_uassert

\* A dump decision looks at the dump task while a dump is in progress.
C1_Witness ==
  \E p \in Procs : pc[p] = "check_task" /\ DumpTaskInProgress

\* ------------------------------------------------------------- C2
\* C2: at most one invocation of the domain Update is in progress.
C2_OneDomainUpdate ==
  Cardinality({p \in Procs : pc[p] = "in_update"}) <= 1

\* An explicit Update runs while the bootstrap is about to run its first
\* update and has to wait for the mutex.
C2_Witness ==
  /\ pc["ext"] = "in_update"
  /\ pc["start"] = "first_update"
  /\ update_lock = "ext"

\* ------------------------------------------------------------- C3
\* C3: with the mutex free, last_modifying_update <= last_update.
C3_ModifyingNotAfterUpdate ==
  update_lock = "free" => last_modifying_update <= last_update

\* After a dump load and a later update that modified nothing.
C3_Witness ==
  /\ update_lock = "free"
  /\ statistics_dump.is_loaded
  /\ TimePointZero < last_modifying_update
  /\ last_modifying_update < last_update

\* ------------------------------------------------------------- C4
\* C4: last_dumped_update is never later than last_modifying_update.
C4_DumpedNotAfterModifying == last_dumped_update_ <= last_modifying_update

\* ------------------------------------------------------------- C5
\* C5: last_dumped_update never decreases, and a dump operation that
\* succeeded for instant T leaves last_dumped_update >= T.
C5_DumpedNonDecreasing ==
  [][/\ last_dumped_update_' >= last_dumped_update_
     /\ DumpSucceeded => last_dumped_update_' >= dump_task.new_update_time]_vars

\* ------------------------------------------------------------- C6
\* C6: under kOnlyFull the domain Update never runs with type Incremental.
C6_FullOnlyNeverIncremental ==
  \A p \in Procs :
    pc[p] = "in_update" /\ config.allowed_update_types = "kOnlyFull"
    => loc[p].type = "kFull"

\* An explicit Update(kIncremental) of a loaded kOnlyFull cache is running.
C6_Witness ==
  /\ config.allowed_update_types = "kOnlyFull"
  /\ pc["ext"] = "in_update"
  /\ loc["ext"].op = "Update"
  /\ loc["ext"].requested = "kIncremental"
  /\ last_update # TimePointZero

\* ------------------------------------------------------------- C7
\* C7: a dump operation that starts is a BumpTime exactly when
\* last_dumped_update equals last_modifying_update, and a NewDump otherwise.
C7_BumpTimeIffUnmodified ==
  [][DumpSpawned =>
       /\ dump_task'.op \in DumpOperations
       /\ dump_task'.op = "kBumpTime" <=>
            last_dumped_update_ = last_modifying_update]_vars

\* A BumpTime runs for a cache that was dumped before and not modified since.
C7_Witness ==
  /\ DumpTaskInProgress
  /\ dump_task.op = "kBumpTime"
  /\ last_dumped_update_ # TimePointZero
  /\ last_dumped_update_ = last_modifying_update

\* ------------------------------------------------------------- C8
\* C8: after a successful dump at T_prev, a BumpTime started by an update that
\* succeeded at T_curr without modifying the cache renames the dump from
\* T_prev to T_curr, and its success leaves last_dumped_update = T_curr.
C8_BumpTimeToLatestUpdate ==
  [][\A p \in Procs :
       /\ pc[p] = "check_task"
       /\ loc[p].op = "DoPeriodicUpdate"
       /\ ~loc[p].threw
       /\ ~loc[p].modified
       /\ dump_task.state = "finished" /\ dump_task.success
       /\ last_dumped_update_ # TimePointZero
       /\ DumpSpawned
       /\ dump_task'.op = "kBumpTime"
       => /\ dump_task'.old_update_time = last_dumped_update_
          /\ dump_task'.new_update_time = last_update]_vars

\* ------------------------------------------------------------- C9
\* C9 as stated: the second of two modifying updates less than
\* min_dump_interval apart starts no dump.
C9_SecondStartsNoDump ==
  [][\A p \in Procs :
       SecondModifyingUpdate(p) /\ pc[p] \in {"should_dump", "check_task"}
       => ~DumpSpawned]_vars

\* C9 as amended: when the first update's NewDump has succeeded before the
\* second update's dump decision begins, ShouldDump returns false on the
\* interval check; when it is still running as ShouldDump looks at the dump
\* task, ShouldDump returns false there. In both cases no dump is started.
C9_SecondStartsNoDumpAfterSuccess ==
  [][\A p \in Procs :
       /\ SecondModifyingUpdate(p) /\ pc[p] = "should_dump"
          /\ dump_task.state = "finished" /\ dump_task.success
          => pc'[p] # "check_task" /\ ~DumpSpawned
       /\ SecondModifyingUpdate(p) /\ pc[p] = "check_task"
          /\ DumpTaskInProgress /\ dump_task'.state = "running"
          => ~DumpSpawned /\ dump_task' = dump_task]_vars

\* The second update makes its dump decision after the first update's NewDump
\* succeeded.
C9_Witness ==
  \E p \in Procs :
    /\ SecondModifyingUpdate(p)
    /\ pc[p] = "should_dump"
    /\ dump_task.state = "finished"
    /\ dump_task.success

\* ------------------------------------------------------------- C10
\* This step is the failed first update of the bootstrap, or its dump
\* decision, under the mutex.
FailedFirstUpdateStep ==
  /\ update_lock = "start"
  /\ \/ pc["start"] = "in_update" /\ loc'["start"].threw
     \/ pc["start"] \in {"should_dump", "check_task"} /\ loc["start"].threw

\* This step ends a StartPeriodicUpdates whose first update threw.
StartEndsAfterFailure ==
  pc["start"] = "after_first" /\ pc'["start"] = "idle" /\ start_loc.threw

\* C10: a failed first update ends the start with the exception exactly when
\* NOT (dump loaded AND first_update_mode # Required) AND NOT
\* allow_first_update_failure, and then is_running is false and no periodic
\* task is started; otherwise the start completes, is_running is true and the
\* periodic tasks are started when enabled. The failed update leaves
\* last_update and last_modifying_update as they were (the dump instant while
\* the cache holds the contents of the dump).
C10_FirstUpdateFailure ==
  [][/\ StartEndsAfterFailure =>
          LET propagates ==
                /\ ~(start_loc.dump_loaded /\ config.first_update_mode # "kRequired")
                /\ ~config.allow_first_update_failure
          IN  /\ start_result' = "thrown" <=> propagates
              /\ propagates =>
                   ~is_running_' /\ ~update_task_' /\ ~cleanup_task_'
              /\ ~propagates =>
                   /\ start_result' = "completed"
                   /\ is_running_'
                   /\ periodic_update_enabled_ => update_task_' /\ cleanup_task_'
     /\ FailedFirstUpdateStep =>
          /\ UNCHANGED <<last_update, last_modifying_update>>
          /\ statistics_dump.is_current_from_dump =>
               /\ last_update # TimePointZero
               /\ last_update = last_modifying_update]_vars

\* A start ended with the exception of the first update although a dump had
\* been loaded.
C10_Witness ==
  /\ start_result = "thrown"
  /\ ~is_running_
  /\ statistics_dump.is_current_from_dump
  /\ pc["start"] = "idle"

\* ------------------------------------------------------------- C11
\* This step is the return of LoadFromDump into StartPeriodicUpdates.
LoadFromDumpReturns ==
  pc["start"] \in {"load", "reading"} /\ pc'["start"] \notin {"load", "reading"}

\* C11: the bootstrap runs the synchronous first update exactly when NOT (dump
\* loaded AND first_update_mode = Skip) AND NOT (kNoFirstUpdate AND periodic
\* updates enabled); the bootstrap enters the domain Update on no other path.
C11_FirstUpdateRunsIff ==
  [][/\ LoadFromDumpReturns =>
          /\ pc'["start"] \in {"first_update", "after_first"}
          /\ pc'["start"] = "first_update" <=>
               /\ ~(start_loc'.dump_loaded /\ config.first_update_mode = "kSkip")
               /\ ~(start_loc.no_first_update /\ periodic_update_enabled_)
     /\ pc'["start"] = "in_update" /\ pc["start"] # "in_update" =>
          pc["start"] = "first_update"]_vars

\* A warm start in Skip mode has passed the first update without running it.
C11_Witness ==
  /\ pc["start"] = "after_first"
  /\ config.first_update_mode = "kSkip"
  /\ start_loc.dump_loaded
  /\ ~start_loc.first_update
  /\ statistics_dump.is_current_from_dump
  /\ last_update = last_modifying_update

\* ------------------------------------------------------------- C12
\* This step is a LoadFromDump that loaded the newest dump on disk.
DumpLoadedStep ==
  pc["start"] = "reading" /\ pc'["start"] # "reading" /\ start_loc'.dump_loaded

\* C12: loading a dump of instant T0 sets last_update = last_modifying_update
\* = T0 and leaves last_dumped_update >= T0; while the cache holds the
\* contents of the dump a DoPeriodicUpdate (the first update or a tick) hands
\* T0 to the domain Update as the previous update time, and under
\* kOnlyIncremental without force_full_second_update its type is Incremental.
C12_WarmStartState ==
  [][/\ DumpLoadedStep =>
          /\ dumps # {}
          /\ last_update' = SetMax(dumps)
          /\ last_modifying_update' = SetMax(dumps)
          /\ last_dumped_update_' >= SetMax(dumps)
     /\ \A p \in Procs :
          /\ pc[p] = "in_update"
          /\ loc[p].op = "DoPeriodicUpdate"
          /\ statistics_dump.is_current_from_dump
          => /\ loc[p].prev = last_update
             /\ last_update = last_modifying_update
             /\ last_update # TimePointZero
             /\ (config.allowed_update_types = "kOnlyIncremental"
                 /\ ~config.force_full_second_update)
                => loc[p].type = "kIncremental"]_vars

\* The first periodic tick after a warm start runs incrementally from the
\* dump instant.
C12_Witness ==
  /\ pc["tick"] = "in_update"
  /\ statistics_dump.is_current_from_dump
  /\ ~config.force_full_second_update
  /\ loc["tick"].prev = last_update
  /\ loc["tick"].type = "kIncremental"
  /\ last_update = 1
  /\ last_modifying_update = 1

\* ------------------------------------------------------------- C13
\* C13: a dump load that fails (no dump on disk, or the reader or ReadAndSet
\* throws) is a load of nothing: LoadFromDump returns false into the running
\* start, the update instants and the dump statistics are unchanged, and the
\* first update runs as without a dump, whatever first_update_mode is.
C13_FailedLoadIsNoDump ==
  [][/\ LoadFromDumpReturns /\ dumps = {} => ~start_loc'.dump_loaded
     /\ LoadFromDumpReturns /\ ~start_loc'.dump_loaded =>
          /\ UNCHANGED <<last_update, last_modifying_update,
                         last_dumped_update_, statistics_dump>>
          /\ UNCHANGED <<is_running_, start_result>>
          /\ update_lock' = "free"
          /\ pc'["start"] = "first_update" <=>
               ~(start_loc.no_first_update /\ periodic_update_enabled_)
          /\ pc'["start"] # "first_update" => pc'["start"] = "after_first"]_vars

\* A cold cache in Skip mode goes on to the first update after the reader
\* failed on the dump that is on disk.
C13_Witness ==
  /\ pc["start"] = "first_update"
  /\ config.first_update_mode = "kSkip"
  /\ ~start_loc.dump_loaded
  /\ dumps # {}
  /\ last_update = TimePointZero
  /\ last_dumped_update_ = TimePointZero

\* ------------------------------------------------------------- C14
\* This step is the begin of a periodic tick.
TickBegins == pc["tick"] = "idle" /\ pc'["tick"] = "in_update"

\* This step ends a StartPeriodicUpdates that completes.
StartCompletes ==
  pc["start"] = "after_first" /\ pc'["start"] = "idle" /\ start_result' = "completed"

\* C14: a warm start under kOnlyIncremental with force_full_second_update
\* sets force_next_update_full_; the next tick runs Full and resets the flag
\* at its begin, so the flag stays reset whether the update returns or
\* throws; a tick that finds the flag reset on a loaded cache runs
\* Incremental, and only a completing start sets the flag.
C14_ForcedFullIsOneShot ==
  [][/\ StartCompletes /\ start_loc.dump_loaded
        /\ config.force_full_second_update
        => force_next_update_full_'
     /\ TickBegins =>
          /\ ~force_next_update_full_'
          /\ force_next_update_full_ => loc'["tick"].type = "kFull"
          /\ ~force_next_update_full_ /\ last_update # TimePointZero
             => loc'["tick"].type = "kIncremental"
     /\ force_next_update_full_' /\ ~force_next_update_full_ =>
          StartCompletes /\ start_loc.dump_loaded
     /\ pc["tick"] # "idle" => force_next_update_full_' = force_next_update_full_]_vars

\* The forced full tick after a warm start threw and the flag is consumed.
C14_Witness ==
  /\ config.force_full_second_update
  /\ statistics_dump.is_current_from_dump
  /\ pc["tick"] = "should_dump"
  /\ loc["tick"].type = "kFull"
  /\ loc["tick"].threw
  /\ ~force_next_update_full_
  /\ last_update # TimePointZero

\* ------------------------------------------------------------- C15
\* This step is the end of a dump task that failed.
DumpFailed ==
  dump_task.state = "running" /\ dump_task'.state = "finished" /\ ~dump_task'.success

\* C15: a dump operation that fails leaves last_dumped_update, last_update
\* and last_modifying_update as they were, and the finished failed task
\* blocks nothing: a later dump decision passes ShouldDump
\* whenever dumps are enabled, the cache is loaded and the interval check
\* passes, and it then starts a dump operation.
C15_FailedDumpChangesNothing ==
  [][/\ DumpFailed =>
          UNCHANGED <<last_dumped_update_, last_update, last_modifying_update>>
     /\ \A p \in Procs :
          /\ dump_task.state = "finished" /\ ~dump_task.success
          /\ dump_task'.state # "finished" \/ pc'[p] # pc[p]
          =>
          /\ (/\ pc[p] = "should_dump"
              /\ config.dumps_enabled
              /\ last_update # TimePointZero
              /\ ~(/\ loc[p].dump_type = "kHonorDumpInterval"
                   /\ last_dumped_update_ > last_update - config.min_dump_interval))
             => pc'[p] = "check_task"
          /\ pc[p] = "check_task" =>
               /\ DumpSpawned
               /\ dump_task'.new_update_time = last_modifying_update]_vars

\* A tick makes its dump decision after the previous dump operation failed.
C15_Witness ==
  /\ pc["tick"] = "check_task"
  /\ loc["tick"].op = "DoPeriodicUpdate"
  /\ dump_task.state = "finished"
  /\ ~dump_task.success
  /\ last_dumped_update_ < last_modifying_update

\* ------------------------------------------------------------- C16
\* The testsuite caller is in a DumpSyncDebug of a loaded cache with dumps
\* enabled.
InDumpSyncDebug ==
  /\ loc["ext"].op = "DumpSyncDebug"
  /\ config.dumps_enabled
  /\ last_update # TimePointZero

\* C16 as stated: every DumpSyncDebug of a loaded cache with dumps enabled
\* starts a dump operation.
C16_AlwaysStartsDump ==
  [][/\ InDumpSyncDebug /\ pc["ext"] = "should_dump" /\ pc'["ext"] # "should_dump"
        => pc'["ext"] = "check_task"
     /\ InDumpSyncDebug /\ pc["ext"] = "check_task" /\ pc'["ext"] # "check_task"
        => DumpSpawned]_vars

\* C16 as amended: DumpSyncDebug of a loaded cache with dumps enabled passes
\* the interval check whatever last_dumped_update is, starts a dump operation
\* exactly when no dump task is in progress at ShouldDump's look at the task
\* (otherwise it starts none and waits for the one in progress), and when it
\* returns no dump task is running.
C16_ForcedDumpAndWait ==
  [][/\ InDumpSyncDebug /\ pc["ext"] = "should_dump" /\ pc'["ext"] # "should_dump"
        => pc'["ext"] = "check_task"
     /\ InDumpSyncDebug /\ pc["ext"] = "check_task" /\ pc'["ext"] # "check_task"
        => /\ pc'["ext"] = "wait_dump"
           /\ DumpSpawned <=> ~DumpTaskInProgress
           /\ DumpTaskInProgress => dump_task' = dump_task
     /\ pc["ext"] = "wait_dump" /\ pc'["ext"] # "wait_dump"
        => /\ pc'["ext"] = "idle"
           /\ dump_task'.state \in {"invalid", "finished"}
           /\ update_lock = "ext" /\ update_lock' = "free"]_vars

\* DumpSyncDebug waits for a dump operation although the dump interval has
\* not passed.
C16_Witness ==
  /\ pc["ext"] = "wait_dump"
  /\ InDumpSyncDebug
  /\ DumpTaskInProgress
  /\ dump_task.new_update_time = last_modifying_update
  /\ last_dumped_update_ # TimePointZero
  /\ last_dumped_update_ > last_update - config.min_dump_interval

\* ------------------------------------------------------------- C17
\* This step is the return of StopPeriodicUpdates.
StopReturns == pc["stop"] # "idle" /\ pc'["stop"] = "idle"

\* C17: when StopPeriodicUpdates returns, is_running is false, the update
\* task and the cleanup task are stopped with no callback running, and no
\* dump task of the cache is in flight.
C17_StoppedOnReturn ==
  [][StopReturns =>
       /\ ~is_running_'
       /\ ~update_task_' /\ ~cleanup_task_'
       /\ pc'["tick"] = "idle"
       /\ ~(dump_task'.state = "running")]_vars

\* ------------------------------------------------------------- C18
\* This step ends a StartPeriodicUpdates with the exception of the first update.
StartThrows ==
  pc["start"] = "after_first" /\ pc'["start"] = "idle" /\ start_result' = "thrown"

\* This step is the begin of a testsuite Update or DumpSyncDebug.
TestsuiteCallBegins == pc["ext"] = "idle" /\ pc'["ext"] # "idle"

\* C18: the cache is registered in the testsuite registry by
\* StartPeriodicUpdates and is not registered after StopPeriodicUpdates
\* returned nor after a StartPeriodicUpdates that threw, so that a testsuite
\* Update or DumpSyncDebug begins on a running cache only (or while the
\* StopPeriodicUpdates that ends the run is still in progress).
C18_RegisteredOnlyWhileRunning ==
  [][/\ StopReturns => ~cache_invalidator_holder_'
     /\ StartThrows => ~cache_invalidator_holder_'
     /\ TestsuiteCallBegins => is_running_ \/ pc["stop"] # "idle"]_vars

\* ------------------------------------------------------------- C19
\* C19: LoadFromDump's reading task (GetLatestDump, ReadAndSet) never runs
\* while a NewDump or BumpTime task of the cache is in flight.
C19_ReaderNeverOverlapsWriter ==
  ~(pc["start"] = "reading" /\ DumpTaskInProgress)

\* ------------------------------------------------------------- C20
\* Process p is in a DoPeriodicUpdate whose domain Update threw.
InFailedUpdate(p) ==
  /\ pc[p] \in {"should_dump", "check_task"}
  /\ loc[p].op = "DoPeriodicUpdate"
  /\ loc[p].threw

\* C20: a domain Update that throws records nothing: last_update,
\* last_modifying_update and last_full_update stay as they were from the
\* throw to the return of DoPeriodicUpdate, the periodic tasks stay started,
\* the mutex is released, and the next tick hands the domain Update the
\* same previous update time.
C20_FailedUpdateRecordsNothing ==
  [][/\ \A p \in {"tick", "start"} :
          \/ pc[p] = "in_update" /\ loc'[p].threw
          \/ InFailedUpdate(p)
          => /\ UNCHANGED <<last_update, last_modifying_update, last_full_update>>
             /\ UNCHANGED <<update_task_, cleanup_task_>>
             /\ loc[p].prev = last_update
     /\ InFailedUpdate("tick") /\ pc'["tick"] # pc["tick"] =>
          \/ pc'["tick"] = "check_task"
          \/ pc'["tick"] = "idle" /\ update_lock' = "free" /\ update_task_'
     /\ TickBegins => loc'["tick"].prev = last_update]_vars

\* A tick threw on a cache whose latest successful update modified nothing.
C20_Witness ==
  /\ InFailedUpdate("tick")
  /\ loc["tick"].prev = last_update
  /\ last_update # TimePointZero
  /\ last_update # last_modifying_update
  /\ update_task_

\* ------------------------------------------------------------- C21
\* The reference decision of the update type of a DoPeriodicUpdate that
\* begins in this step; now' is its reading of the monotonic clock.
ReferenceUpdateType ==
  IF force_next_update_full_ \/ last_update = TimePointZero THEN "kFull"
  ELSE IF config.allowed_update_types = "kOnlyFull" THEN "kFull"
  ELSE IF config.allowed_update_types = "kOnlyIncremental" THEN "kIncremental"
  ELSE IF now' - last_full_update < config.full_update_interval
       THEN "kIncremental"
       ELSE "kFull"

\* C21: the type of a periodic tick (and of the bootstrap's DoPeriodicUpdate)
\* is the reference decision: Full if force_next_update_full was set or
\* last_update is zero; otherwise Full under kOnlyFull, Incremental under
\* kOnlyIncremental, and under kFullAndIncremental Incremental when
\* monotonic_now - last_full_update < full_update_interval, else Full.
C21_TickTypeIsReference ==
  [][\A p \in {"tick", "start"} :
       pc[p] # "in_update" /\ pc'[p] = "in_update"
       => loc'[p].type = ReferenceUpdateType]_vars

\* A tick of a kFullAndIncremental cache runs incrementally inside the
\* full update interval.
C21_Witness ==
  /\ pc["tick"] = "in_update"
  /\ config.allowed_update_types = "kFullAndIncremental"
  /\ loc["tick"].type = "kIncremental"
  /\ last_update # TimePointZero
  /\ loc["tick"].now - last_full_update < config.full_update_interval

\* ------------------------------------------------------------- C22
\* C22: ShouldDump returns false exactly when dumps are disabled, or
\* last_update is the zero instant, or the type is kHonorDumpInterval and
\* last_dumped_update > last_update - min_dump_interval, or the stored dump
\* task is valid and not finished; otherwise it returns true and the caller
\* starts a dump operation.
C22_ShouldDumpDecision ==
  [][\A p \in Procs :
       /\ pc[p] = "should_dump" /\ pc'[p] # "should_dump" =>
            (pc'[p] = "check_task" <=>
               ~(\/ ~config.dumps_enabled
                 \/ last_update = TimePointZero
                 \/ /\ loc[p].dump_type = "kHonorDumpInterval"
                    /\ last_dumped_update_ > last_update - config.min_dump_interval))
       /\ pc[p] = "check_task" /\ pc'[p] # "check_task" =>
            (DumpSpawned <=> dump_task.state # "running")]_vars

\* A dump decision is made on a loaded cache whose dumps are disabled.
C22_Witness ==
  \E p \in Procs :
    /\ pc[p] = "should_dump"
    /\ ~config.dumps_enabled
    /\ last_update # TimePointZero

\* ------------------------------------------------------------- C23
\* The recording step of DoUpdate by process p, written from the claim.
OutcomeRecorded(p) ==
  /\ last_update' = loc[p].now
  /\ last_modifying_update' =
       IF cache_modified_ THEN loc[p].now ELSE last_modifying_update
  /\ ~cache_modified_'
  /\ last_full_update' =
       IF loc[p].type = "kFull" THEN loc[p].now ELSE last_full_update
  /\ ~statistics_dump'.is_current_from_dump
  /\ UNCHANGED <<last_dumped_update_, dump_task, dumps>>

\* Nothing of the update state changes in this step.
NothingRecorded ==
  UNCHANGED <<last_update, last_modifying_update, last_full_update,
              cache_modified_, statistics_dump, last_dumped_update_, dump_task>>

\* C23: a successful update at instant N sets last_update to N, sets
\* last_modifying_update to N iff cache_modified was set and resets
\* cache_modified, sets last_full_update iff the type was Full, clears
\* is_current_from_dump and leaves last_dumped_update and the dump task alone.
\* (The return of an explicit Update either recorded its outcome or threw.)
C23_SuccessfulUpdateRecords ==
  [][\A p \in Procs :
       /\ pc[p] = "in_update" /\ pc'[p] = "should_dump" /\ ~loc'[p].threw
          => OutcomeRecorded(p)
       /\ pc[p] = "in_update" /\ pc'[p] = "idle"
          => OutcomeRecorded(p) \/ NothingRecorded]_vars

\* An incremental update succeeded without modifying the cache.
C23_Witness ==
  \E p \in Procs :
    /\ pc[p] = "should_dump"
    /\ loc[p].op = "DoPeriodicUpdate"
    /\ ~loc[p].threw /\ ~loc[p].modified
    /\ loc[p].type = "kIncremental"
    /\ last_update = loc[p].now
    /\ last_modifying_update < last_update
    /\ last_full_update < last_update
    /\ last_modifying_update # TimePointZero

\* ------------------------------------------------------------- C24
\* C24: a DoPeriodicUpdate makes its dump decision with kHonorDumpInterval
\* right after its update attempt, whether the domain Update returned or
\* threw, and returns or rethrows only after that decision; the bootstrap
\* sees the exception of a first update that threw.
C24_DumpDecisionAfterEveryAttempt ==
  [][\A p \in {"tick", "start"} :
       /\ pc[p] = "in_update" /\ pc'[p] # "in_update" =>
            /\ pc'[p] = "should_dump"
            /\ loc'[p].dump_type = "kHonorDumpInterval"
            /\ update_lock' = p
            /\ dump_task' = dump_task
       /\ loc[p].op = "DoPeriodicUpdate" /\ loc'[p].op # "DoPeriodicUpdate" =>
            /\ pc[p] \in {"should_dump", "check_task"}
            /\ update_lock' = "free"
            /\ p = "start" => start_loc'.threw = loc[p].threw]_vars

\* The dump decision of a tick whose update threw has passed the interval
\* check.
C24_Witness ==
  /\ pc["tick"] = "check_task"
  /\ loc["tick"].threw
  /\ loc["tick"].dump_type = "kHonorDumpInterval"
  /\ update_lock = "tick"

\* ------------------------------------------------------------- C25
\* C25 as stated: no domain Update of type Incremental runs on a cache whose
\* last_update is the zero instant, on any path.
C25_NoIncrementalOnUnloaded ==
  \A p \in Procs :
    pc[p] = "in_update" /\ loc[p].prev = TimePointZero => loc[p].type = "kFull"

\* C25 as amended: a DoPeriodicUpdate (tick or bootstrap first update) of a
\* cache whose last_update is the zero instant runs Full; an explicit Update
\* of such a cache runs Incremental only when Incremental was requested and
\* the policy is not kOnlyFull.
C25_NoIncrementalTickOnUnloaded ==
  \A p \in Procs :
    pc[p] = "in_update" /\ loc[p].prev = TimePointZero =>
      /\ loc[p].op = "DoPeriodicUpdate" => loc[p].type = "kFull"
      /\ loc[p].op = "Update" /\ loc[p].type = "kIncremental" =>
           /\ loc[p].requested = "kIncremental"
           /\ config.allowed_update_types # "kOnlyFull"

\* The first update of a cold kOnlyIncremental cache runs as a full update.
C25_Witness ==
  /\ pc["start"] = "in_update"
  /\ loc["start"].op = "DoPeriodicUpdate"
  /\ loc["start"].prev = TimePointZero
  /\ last_update = TimePointZero
  /\ config.allowed_update_types = "kOnlyIncremental"
  /\ loc["start"].type = "kFull"

\* ------------------------------------------------------------- C26
\* Process p is in a DoPeriodicUpdate that began with cache_modified_ still
\* set by an earlier update that threw, and whose own update succeeded.
SucceededWithPendingSignal(p) ==
  /\ loc[p].op = "DoPeriodicUpdate"
  /\ loc[p].pending
  /\ ~loc[p].threw

\* What C26 says of every step but the choice of the dump operation: an
\* update that throws leaves cache_modified as it is, and a successful update
\* that finds it set records its own instant as last_modifying_update.
SignalKept ==
  \A p \in {"tick", "start"} :
    /\ pc[p] = "in_update" /\ loc'[p].threw => cache_modified_' = cache_modified_
    /\ pc[p] = "in_update" /\ pc'[p] = "should_dump" /\ ~loc'[p].threw
       /\ loc[p].pending
       => /\ last_modifying_update' = loc[p].now
          /\ loc'[p].modified

\* C26 as stated: moreover the dump operation that such a successful update
\* starts is a NewDump.
C26_SignalNeverLost ==
  [][/\ SignalKept
     /\ \A p \in {"tick", "start"} :
          pc[p] = "check_task" /\ SucceededWithPendingSignal(p) /\ DumpSpawned
          => dump_task'.op = "kNewDump"]_vars

\* What the code guarantees in the case of C26: the dump operation that such
\* a successful update starts is a NewDump when the instant of the update
\* differs from last_dumped_update, and a BumpTime when the two are equal.
C26_SignalKeptNewDumpAtLaterInstant ==
  [][/\ SignalKept
     /\ \A p \in {"tick", "start"} :
          pc[p] = "check_task" /\ SucceededWithPendingSignal(p) /\ DumpSpawned
          => /\ last_modifying_update = loc[p].now
             /\ dump_task'.op = "kNewDump" <=> loc[p].now # last_dumped_update_]_vars

\* After an update that threw with the signal set, a later update succeeded
\* at an instant after the last dump and is about to start its dump.
C26_Witness ==
  \E p \in {"tick", "start"} :
    /\ pc[p] = "check_task"
    /\ SucceededWithPendingSignal(p)
    /\ last_modifying_update = loc[p].now
    /\ last_dumped_update_ # TimePointZero
    /\ last_dumped_update_ < loc[p].now
    /\ ~DumpTaskInProgress

\* ------------------------------------------------------------- C27
\* Neither StartPeriodicUpdates nor StopPeriodicUpdates is in progress.
NoLifecycleCall == pc["start"] = "idle" /\ pc["stop"] = "idle"

\* C27: whenever is_running is false and no StartPeriodicUpdates or
\* StopPeriodicUpdates call is in progress, neither the update task nor the
\* cleanup task is started, whether or not the calls overlapped.
C27_NoTaskWhenNotRunning ==
  ~is_running_ /\ NoLifecycleCall => ~update_task_ /\ ~cleanup_task_

\* ------------------------------------------------------------- C28
\* C28: a call of DoPeriodicUpdate, Update, DumpSyncDebug or
\* StopPeriodicUpdates that has begun returns, the UpdateData mutex a caller
\* holds is released, and a dump task in progress can always take its next
\* step, whoever holds the mutex.
C28_NoDeadlock ==
  /\ \A p \in {"tick", "ext", "stop"} : (pc[p] # "idle") ~> (pc[p] = "idle")
  /\ \A p \in Procs : (update_lock = p) ~> (update_lock # p)
  /\ [](DumpTaskInProgress => ENABLED DumpTaskFinish(FALSE))

\* A caller holds the mutex and waits for a dump task that is in progress.
C28_Witness ==
  /\ DumpTaskInProgress
  /\ \/ pc["ext"] = "wait_dump" /\ update_lock = "ext"
     \/ pc["stop"] = "stop_wait" /\ update_lock = "stop"

====
